---- MODULE Spec2Model ----
(***************************************************************************)
(* Read path of a Unix V6 file system image: inode_iget, inode_getsize,    *)
(* inode_indexlookup (inode.c), file_getblock (file.c),                    *)
(* directory_findname (directory.c) and pathname_lookup (pathname.c).      *)
(*                                                                         *)
(* A sector is a function from byte offsets 0..511 to bytes.  Every        *)
(* operation threads a trace t of events, so that the order of the         *)
(* diskimg_readsector calls and of the nested calls can be stated.         *)
(***************************************************************************)
EXTENDS Integers, Sequences, FiniteSets, TLC

VARIABLES failAt, pc, op, arg, ret, trace, out

vars == <<failAt, pc, op, arg, ret, trace, out>>

----------------------------------------------------------------------------
(* Program constants.                                                      *)

DISKIMG_SECTOR_SIZE == 512
INODE_SIZE == 32
DIRENT_SIZE == 16
ADDR_SIZE == 2
D_NAME_LEN == 14
N_ADDR == 8
ROOT_INUMBER == 1
INODE_START_SECTOR == 2
IALLOC == 32768
IFMT == 24576
IFDIR == 16384
ILARG == 4096
MAX_PATHNAME_LEN == 256
FAILURE == -1
SLASH == 47

INODES_PER_BLOCK == DISKIMG_SECTOR_SIZE \div INODE_SIZE
ADDRESSES_PER_BLOCK == DISKIMG_SECTOR_SIZE \div ADDR_SIZE

(* Bounds of the model.                                                    *)
MaxFail == 6
MaxComps == 2
MaxBlk == 3

----------------------------------------------------------------------------
(* C integer operators on non-negative values.                             *)

RECURSIVE BitAnd(_, _)
BitAnd(a, b) ==
    IF a = 0 \/ b = 0 THEN 0
    ELSE (IF a % 2 = 1 /\ b % 2 = 1 THEN 1 ELSE 0) + 2 * BitAnd(a \div 2, b \div 2)

RECURSIVE BitOr(_, _)
BitOr(a, b) ==
    IF a = 0 THEN b
    ELSE IF b = 0 THEN a
    ELSE (IF a % 2 = 1 \/ b % 2 = 1 THEN 1 ELSE 0) + 2 * BitOr(a \div 2, b \div 2)

ShiftLeft16(a) == a * 65536

(* The uint16_t stored little-endian at byte offset off of a buffer.       *)
U16(buf, off) == buf[off] + 256 * buf[off + 1]

----------------------------------------------------------------------------
(* The disk image.  File names are strings of ASCII codes.                 *)

N_dot == <<46>>
N_lib == <<108, 105, 98>>
N_li == <<108, 105>>
N_libs == <<108, 105, 98, 115>>
N_bin == <<98, 105, 110>>
N_file == <<102, 105, 108, 101>>
N_14 == <<97, 98, 99, 100, 101, 102, 103, 104, 105, 106, 107, 108, 109, 110>>
N_13 == SubSeq(N_14, 1, 13)
N_15 == N_14 \o <<111>>
N_ta == <<116, 97>>
N_ta_stale == <<116, 97, 0, 105, 108>>
N_tail == <<116, 97, 105, 108>>
N_gone == <<103, 111, 110, 101>>
N_bad == <<98, 97, 100>>
N_empty == <<101, 109, 112, 116, 121>>
N_ldir == <<108, 100, 105, 114>>
N_hole == <<104, 111, 108, 101>>
N_far == <<102, 97, 114>>
N_oob == <<111, 111, 98>>
N_nope == <<110, 111, 112, 101>>
N_x == <<120>>
N_y == <<121>>
N_z == <<122>>

NoAddr == <<0, 0, 0, 0, 0, 0, 0, 0>>
Pad8(a) == SubSeq(a \o NoAddr, 1, N_ADDR)

Ino(mode, size, addr) ==
    [i_mode |-> mode, i_nlink |-> 1, i_uid |-> 0, i_gid |-> 0,
     i_size0 |-> size \div 65536, i_size1 |-> size % 65536,
     i_addr |-> Pad8(addr), i_atime |-> <<0, 0>>, i_mtime |-> <<0, 0>>]

ZeroInode == [Ino(0, 0, <<>>) EXCEPT !.i_nlink = 0]

S_ISIZE == 2
NSectors == 40
OutOfImage == 65536 - 1

MODE_DIR == IALLOC + IFDIR
MODE_REG == IALLOC
MODE_LARGE == IALLOC + ILARG

DenseAddr == <<9, 10, 10, 10, 10, 10, 11, 12>>
DirectAddr == <<20, 21, 22, 23, 24, 25, 26, 27>>
SingleCoverage == 7 * ADDRESSES_PER_BLOCK

(* The i-list of the image.                                                *)
InodeTable ==
    <<(*  1 *) Ino(MODE_DIR, 14 * DIRENT_SIZE, <<4>>),
      (*  2 *) Ino(MODE_DIR, 34 * DIRENT_SIZE, <<5, 6>>),
      (*  3 *) Ino(MODE_REG, DISKIMG_SECTOR_SIZE + 1, DirectAddr),
      (*  4 *) Ino(IFDIR, 77, <<20, 21>>),
      (*  5 *) Ino(MODE_DIR, 3 * DIRENT_SIZE, <<7>>),
      (*  6 *) Ino(MODE_DIR, 40, <<8>>),
      (*  7 *) Ino(MODE_DIR, 0, <<7>>),
      (*  8 *) Ino(MODE_REG, 1000, <<20, 21>>),
      (*  9 *) Ino(MODE_LARGE, 4 * ADDRESSES_PER_BLOCK * DISKIMG_SECTOR_SIZE, <<9, 0, 15, OutOfImage>>),
      (* 10 *) Ino(MODE_REG, 0, <<22, 23, 24, 25, 26, 27, 28, 29>>),
      (* 11 *) Ino(MODE_REG, 9 * DISKIMG_SECTOR_SIZE, DirectAddr),
      (* 12 *) Ino(MODE_REG, 3 * DISKIMG_SECTOR_SIZE, <<20, 0, 22>>),
      (* 13 *) Ino(MODE_DIR, DIRENT_SIZE, <<0>>),
      (* 14 *) Ino(MODE_DIR + ILARG, 3 * DIRENT_SIZE, <<16>>),
      (* 15 *) Ino(MODE_LARGE, 0, <<9, 10>>),
      (* 16 *) Ino(MODE_DIR, 2 * DIRENT_SIZE, <<OutOfImage>>),
      (* 17 *) Ino(MODE_REG, 5, <<25>>),
      (* 18 *) Ino(MODE_REG, 1, DirectAddr),
      (* 19 *) Ino(MODE_REG, DISKIMG_SECTOR_SIZE, DirectAddr),
      (* 20 *) Ino(MODE_REG, 8 * DISKIMG_SECTOR_SIZE, DirectAddr),
      (* 21 *) Ino(MODE_LARGE, 1, DenseAddr),
      (* 22 *) Ino(MODE_LARGE, DISKIMG_SECTOR_SIZE, DenseAddr),
      (* 23 *) Ino(MODE_LARGE, DISKIMG_SECTOR_SIZE + 1, DenseAddr),
      (* 24 *) Ino(MODE_LARGE, 8 * DISKIMG_SECTOR_SIZE, DenseAddr),
      (* 25 *) Ino(MODE_LARGE, 9 * DISKIMG_SECTOR_SIZE, DenseAddr),
      (* 26 *) Ino(MODE_LARGE, SingleCoverage * DISKIMG_SECTOR_SIZE, DenseAddr),
      (* 27 *) Ino(MODE_LARGE, SingleCoverage * DISKIMG_SECTOR_SIZE + 1, DenseAddr),
      (* 28 *) Ino(MODE_LARGE, (SingleCoverage + ADDRESSES_PER_BLOCK + 2) * DISKIMG_SECTOR_SIZE - 100, DenseAddr),
      (* 29 *) Ino(MODE_LARGE, 256 * 65536 - 1, DenseAddr),
      (* 30 *) Ino(MODE_REG, 2 * DISKIMG_SECTOR_SIZE, DirectAddr),
      (* 31 *) ZeroInode,
      (* 32 *) Ino(MODE_REG, 3, <<28>>) >>

RootEntries ==
    << <<1, N_dot>>, <<2, N_lib>>, <<0, N_bin>>, <<5, N_bin>>, <<3, N_file>>,
       <<8, N_14>>, <<9, N_ta_stale>>, <<4, N_gone>>, <<6, N_bad>>,
       <<7, N_empty>>, <<14, N_ldir>>, <<13, N_hole>>, <<16, N_far>>,
       <<33, N_oob>> >>

FreeEntry == <<0, <<>> >>

LibBlock0 == << <<8, N_x>> >> \o [k \in 1..30 |-> FreeEntry] \o << <<17, N_y>> >>

LibBlock1 == << <<3, N_z>>, <<9, N_x>> >>

BinEntries == << <<2, N_lib>>, FreeEntry, <<5, N_bin>> >>

(* Byte o of a 32-byte on-disk inode.                                      *)
InodeByte(ino, o) ==
    CASE o = 0 -> ino.i_mode % 256
      [] o = 1 -> ino.i_mode \div 256
      [] o = 2 -> ino.i_nlink
      [] o = 3 -> ino.i_uid
      [] o = 4 -> ino.i_gid
      [] o = 5 -> ino.i_size0
      [] o = 6 -> ino.i_size1 % 256
      [] o = 7 -> ino.i_size1 \div 256
      [] o >= 8 /\ o < 24 ->
           LET a == ino.i_addr[((o - 8) \div 2) + 1]
           IN  IF o % 2 = 0 THEN a % 256 ELSE a \div 256
      [] OTHER -> 0

InodeSector(blk) ==
    [i \in 0..(DISKIMG_SECTOR_SIZE - 1) |->
        InodeByte(InodeTable[blk * INODES_PER_BLOCK + (i \div INODE_SIZE) + 1],
                  i % INODE_SIZE)]

DirSector(ents) ==
    [i \in 0..(DISKIMG_SECTOR_SIZE - 1) |->
        LET e == (i \div DIRENT_SIZE) + 1
            o == i % DIRENT_SIZE
        IN  IF e > Len(ents) THEN 0
            ELSE IF o = 0 THEN ents[e][1] % 256
            ELSE IF o = 1 THEN ents[e][1] \div 256
            ELSE IF o - 1 <= Len(ents[e][2]) THEN ents[e][2][o - 1]
            ELSE 0]

AddrSector(f) ==
    [i \in 0..(DISKIMG_SECTOR_SIZE - 1) |->
        LET a == f[i \div ADDR_SIZE]
        IN  IF i % 2 = 0 THEN a % 256 ELSE a \div 256]

AddrIdx == 0..(ADDRESSES_PER_BLOCK - 1)

RawSector(s) == [i \in 0..(DISKIMG_SECTOR_SIZE - 1) |-> (s + i) % 256]

SectorContent(s) ==
    CASE s = 2 \/ s = 3 -> InodeSector(s - INODE_START_SECTOR)
      [] s = 4 -> DirSector(RootEntries)
      [] s = 5 -> DirSector(LibBlock0)
      [] s = 6 -> DirSector(LibBlock1)
      [] s = 7 -> DirSector(BinEntries)
      [] s = 8 -> DirSector(<< <<2, N_lib>>, <<5, N_bin>>, <<3, N_file>> >>)
      [] s = 9 -> AddrSector([k \in AddrIdx |-> 20 + (k % 16)])
      [] s = 10 -> AddrSector([k \in AddrIdx |-> 30 + (k % 4)])
      [] s = 11 -> AddrSector([k \in AddrIdx |->
                      IF k = ADDRESSES_PER_BLOCK - 1 THEN 29 ELSE 30 + (k % 4)])
      [] s = 12 -> AddrSector([k \in AddrIdx |->
                      IF k = 0 THEN 13 ELSE IF k = 1 THEN 14 ELSE 0])
      [] s = 13 -> AddrSector([k \in AddrIdx |-> 34 + (k % 4)])
      [] s = 14 -> AddrSector([k \in AddrIdx |-> IF k = 1 THEN 35 ELSE 0])
      [] s = 15 -> AddrSector([k \in AddrIdx |-> IF k = 3 THEN 36 ELSE 0])
      [] s = 16 -> AddrSector([k \in AddrIdx |-> IF k = 0 THEN 7 ELSE 0])
      [] s = 17 -> AddrSector([k \in AddrIdx |-> 0])
      [] s = 18 -> AddrSector([k \in AddrIdx |->
                      IF k = 0 THEN 20 ELSE IF k = 2 THEN 22 ELSE 0])
      [] OTHER -> RawSector(s)

----------------------------------------------------------------------------
(* Events of a trace.                                                      *)

EvRead(s, ok) == <<"read", s, ok>>
EvIndexlookup(b) == <<"indexlookup", b, TRUE>>
EvFindname(n) == <<"findname", n, TRUE>>

IsRead(e) == e[1] = "read"
Reads(t) == SelectSeq(t, IsRead)

(* diskimg_readsector: the sector must lie in the image, and the read the  *)
(* fault plan names fails.                                                 *)
diskimg_readsector(t, s) ==
    LET ok == /\ s >= 0
              /\ s < NSectors
              /\ Len(Reads(t)) + 1 # failAt
    IN  [ok |-> ok, buf |-> SectorContent(s), t |-> Append(t, EvRead(s, ok))]

----------------------------------------------------------------------------
(* F(v), with v evaluated once: the result of a call is a local variable   *)
(* of the caller, which reads it many times.                               *)
Bind(v, F(_)) == CHOOSE y \in {F(x) : x \in {v}} : TRUE

----------------------------------------------------------------------------
(* inode.c                                                                 *)

(* memcpy of one struct inode out of a sector buffer.                      *)
DecodeInode(buf, off) ==
    [i_mode |-> U16(buf, off), i_nlink |-> buf[off + 2], i_uid |-> buf[off + 3],
     i_gid |-> buf[off + 4], i_size0 |-> buf[off + 5], i_size1 |-> U16(buf, off + 6),
     i_addr |-> <<U16(buf, off + 8), U16(buf, off + 10), U16(buf, off + 12),
                  U16(buf, off + 14), U16(buf, off + 16), U16(buf, off + 18),
                  U16(buf, off + 20), U16(buf, off + 22)>>,
     i_atime |-> <<U16(buf, off + 24), U16(buf, off + 26)>>,
     i_mtime |-> <<U16(buf, off + 28), U16(buf, off + 30)>>]

(* The end of inode_iget: the copy into *inp and the allocation check.     *)
IgetCopy(r, offset_in_block_bytes) ==
    Bind(DecodeInode(r.buf, offset_in_block_bytes), LAMBDA new :
        IF BitAnd(new.i_mode, IALLOC) = 0
        THEN [ret |-> FAILURE, inp |-> new, t |-> r.t]
        ELSE [ret |-> 0, inp |-> new, t |-> r.t])

inode_iget(t, inumber, inp) ==
    IF inumber < ROOT_INUMBER THEN [ret |-> FAILURE, inp |-> inp, t |-> t]
    ELSE IF inumber > S_ISIZE * INODES_PER_BLOCK THEN [ret |-> FAILURE, inp |-> inp, t |-> t]
    ELSE
      LET inode_block_offset == (inumber - 1) \div INODES_PER_BLOCK
          disk_block_num == INODE_START_SECTOR + inode_block_offset
          offset_in_block_bytes == ((inumber - 1) % INODES_PER_BLOCK) * INODE_SIZE
      IN  Bind(diskimg_readsector(t, disk_block_num), LAMBDA r :
              IF ~r.ok THEN [ret |-> FAILURE, inp |-> inp, t |-> r.t]
              ELSE IgetCopy(r, offset_in_block_bytes))

inode_getsize(inp) == BitOr(ShiftLeft16(inp.i_size0), inp.i_size1)

(* LookupSmall as it would be with the direct range one slot short.        *)
LookupSmall_OffByOne(t, inp, fileBlockNum) ==
    IF fileBlockNum >= N_ADDR - 1 THEN [ret |-> FAILURE, t |-> t]
    ELSE IF inp.i_addr[fileBlockNum + 1] = 0 THEN [ret |-> FAILURE, t |-> t]
    ELSE [ret |-> inp.i_addr[fileBlockNum + 1], t |-> t]

(* The small-file branch: direct slots only.                               *)
LookupSmall(t, inp, fileBlockNum) ==
    IF fileBlockNum >= N_ADDR THEN [ret |-> FAILURE, t |-> t]
    ELSE IF inp.i_addr[fileBlockNum + 1] = 0 THEN [ret |-> FAILURE, t |-> t]
    ELSE [ret |-> inp.i_addr[fileBlockNum + 1], t |-> t]

(* The address at index idx of the table just read by r: 0 is a failure.   *)
AddressIn(r, idx) ==
    Bind(U16(r.buf, ADDR_SIZE * idx), LAMBDA data_block_num :
        IF data_block_num = 0 THEN [ret |-> FAILURE, t |-> r.t]
        ELSE [ret |-> data_block_num, t |-> r.t])

(* LookupSingle as it would be if a failed read were tried a second time.  *)
LookupSingle_Retry(t, inp, fileBlockNum) ==
    Bind(inp.i_addr[(fileBlockNum \div ADDRESSES_PER_BLOCK) + 1], LAMBDA single_indirect_ptr :
        IF single_indirect_ptr = 0 THEN [ret |-> FAILURE, t |-> t]
        ELSE Bind(diskimg_readsector(t, single_indirect_ptr), LAMBDA r1 :
                 Bind(IF r1.ok THEN r1 ELSE diskimg_readsector(r1.t, single_indirect_ptr),
                      LAMBDA r :
                        IF ~r.ok THEN [ret |-> FAILURE, t |-> r.t]
                        ELSE AddressIn(r, fileBlockNum % ADDRESSES_PER_BLOCK))))

(* The large-file branch below the double-indirect region.                 *)
LookupSingle(t, inp, fileBlockNum) ==
    LET indirect_block_index_in_i_addr == fileBlockNum \div ADDRESSES_PER_BLOCK
        offset_in_indirect_block == fileBlockNum % ADDRESSES_PER_BLOCK
    IN  Bind(inp.i_addr[indirect_block_index_in_i_addr + 1], LAMBDA single_indirect_ptr :
            IF single_indirect_ptr = 0 THEN [ret |-> FAILURE, t |-> t]
            ELSE Bind(diskimg_readsector(t, single_indirect_ptr), LAMBDA r :
                     IF ~r.ok THEN [ret |-> FAILURE, t |-> r.t]
                     ELSE AddressIn(r, offset_in_indirect_block)))

(* The second level of the double-indirect branch, r1 being the read of    *)
(* the sector i_addr[7] names.                                             *)
LookupSecondLevel(r1, first_level_index, second_level_index) ==
    Bind(U16(r1.buf, ADDR_SIZE * first_level_index), LAMBDA target_single_indirect_ptr :
        IF target_single_indirect_ptr = 0 THEN [ret |-> FAILURE, t |-> r1.t]
        ELSE Bind(diskimg_readsector(r1.t, target_single_indirect_ptr), LAMBDA r2 :
                 IF ~r2.ok THEN [ret |-> FAILURE, t |-> r2.t]
                 ELSE AddressIn(r2, second_level_index)))

(* The large-file branch through i_addr[7].                                *)
LookupDouble(t, inp, fileBlockNum) ==
    LET double_indirect_ptr == inp.i_addr[7 + 1]
        block_num_in_double_region == fileBlockNum - SingleCoverage
        first_level_index == block_num_in_double_region \div ADDRESSES_PER_BLOCK
        second_level_index == block_num_in_double_region % ADDRESSES_PER_BLOCK
    IN  IF double_indirect_ptr = 0 THEN [ret |-> FAILURE, t |-> t]
        ELSE Bind(diskimg_readsector(t, double_indirect_ptr), LAMBDA r1 :
                 IF ~r1.ok THEN [ret |-> FAILURE, t |-> r1.t]
                 ELSE IF first_level_index >= ADDRESSES_PER_BLOCK
                      THEN [ret |-> FAILURE, t |-> r1.t]
                 ELSE LookupSecondLevel(r1, first_level_index, second_level_index))

(* The two guards on the file size that precede the translation.           *)
EmptyFileGuard(file_size_bytes, fileBlockNum) ==
    file_size_bytes = 0 /\ fileBlockNum = 0

PastEndGuard(file_size_bytes, fileBlockNum) ==
    LET max_logical_block ==
            (file_size_bytes + DISKIMG_SECTOR_SIZE - 1) \div DISKIMG_SECTOR_SIZE
    IN  file_size_bytes > 0 /\ fileBlockNum >= max_logical_block

(* LookupLarge as it would be with the region boundary taken inclusive.    *)
LookupLarge_Inclusive(t, inp, fileBlockNum) ==
    IF fileBlockNum <= SingleCoverage
    THEN LookupSingle(t, inp, fileBlockNum)
    ELSE LookupDouble(t, inp, fileBlockNum)

LookupLarge(t, inp, fileBlockNum) ==
    IF fileBlockNum < SingleCoverage
    THEN LookupSingle(t, inp, fileBlockNum)
    ELSE LookupDouble(t, inp, fileBlockNum)

(* inode_indexlookup from the size guards on, t holding the call's event.  *)
LookupBody(t, inp, fileBlockNum, file_size_bytes) ==
    IF EmptyFileGuard(file_size_bytes, fileBlockNum) THEN [ret |-> FAILURE, t |-> t]
    ELSE IF PastEndGuard(file_size_bytes, fileBlockNum) THEN [ret |-> FAILURE, t |-> t]
    ELSE IF BitAnd(inp.i_mode, ILARG) = 0 THEN LookupSmall(t, inp, fileBlockNum)
    ELSE LookupLarge(t, inp, fileBlockNum)

inode_indexlookup(t0, inp, fileBlockNum) ==
    Bind(Append(t0, EvIndexlookup(fileBlockNum)), LAMBDA t :
        IF fileBlockNum < 0 THEN [ret |-> FAILURE, t |-> t]
        ELSE Bind(inode_getsize(inp), LAMBDA file_size_bytes :
                 LookupBody(t, inp, fileBlockNum, file_size_bytes)))

----------------------------------------------------------------------------
(* file.c                                                                  *)

(* ValidBytes as it would be if the partial last block were forgotten.     *)
ValidBytes_AlwaysFull(file_size_bytes, blockNum) == DISKIMG_SECTOR_SIZE

(* Step 7 of file_getblock: the number of valid bytes of block blockNum.   *)
ValidBytes(file_size_bytes, blockNum) ==
    LET start_byte_of_block == blockNum * DISKIMG_SECTOR_SIZE
        remaining_bytes_in_file_from_this_block == file_size_bytes - start_byte_of_block
    IN  IF remaining_bytes_in_file_from_this_block >= DISKIMG_SECTOR_SIZE
        THEN DISKIMG_SECTOR_SIZE
        ELSE remaining_bytes_in_file_from_this_block

(* Steps 4 to 7, for a file that is not empty.                             *)
GetBlockNonEmpty(t, inode_data, file_size_bytes, blockNum) ==
    LET num_logical_blocks ==
            (file_size_bytes + DISKIMG_SECTOR_SIZE - 1) \div DISKIMG_SECTOR_SIZE
    IN  IF blockNum < 0 \/ blockNum >= num_logical_blocks
        THEN [ret |-> FAILURE, t |-> t]
        ELSE Bind(inode_indexlookup(t, inode_data, blockNum), LAMBDA l :
                 IF l.ret < 0 THEN [ret |-> FAILURE, t |-> l.t]
                 ELSE IF l.ret = 0 THEN [ret |-> FAILURE, t |-> l.t]
                 ELSE Bind(diskimg_readsector(l.t, l.ret), LAMBDA r :
                          IF ~r.ok THEN [ret |-> FAILURE, t |-> r.t]
                          ELSE [ret |-> ValidBytes(file_size_bytes, blockNum),
                                t |-> r.t]))

(* file_getblock as it would be without the empty-file case.               *)
file_getblock_NoEmptyCase(t, inumber, blockNum) ==
    Bind(inode_iget(t, inumber, ZeroInode), LAMBDA g :
        IF g.ret < 0 THEN [ret |-> FAILURE, t |-> g.t]
        ELSE Bind(inode_getsize(g.inp), LAMBDA file_size_bytes :
                 GetBlockNonEmpty(g.t, g.inp, file_size_bytes, blockNum)))

file_getblock(t, inumber, blockNum) ==
    Bind(inode_iget(t, inumber, ZeroInode), LAMBDA g :
        IF g.ret < 0 THEN [ret |-> FAILURE, t |-> g.t]
        ELSE Bind(inode_getsize(g.inp), LAMBDA file_size_bytes :
                 IF file_size_bytes = 0 THEN [ret |-> 0, t |-> g.t]
                 ELSE GetBlockNonEmpty(g.t, g.inp, file_size_bytes, blockNum)))

----------------------------------------------------------------------------
(* directory.c                                                             *)

ZeroDirent == [d_inumber |-> 0, d_name |-> <<0, 0, 0, 0, 0, 0, 0, 0, 0, 0, 0, 0, 0, 0>>]

(* One struct direntv6 of a sector buffer.                                 *)
DecodeDirent(buf, off) ==
    [d_inumber |-> U16(buf, off),
     d_name |-> <<buf[off + 2], buf[off + 3], buf[off + 4], buf[off + 5],
                  buf[off + 6], buf[off + 7], buf[off + 8], buf[off + 9],
                  buf[off + 10], buf[off + 11], buf[off + 12], buf[off + 13],
                  buf[off + 14], buf[off + 15]>>]

(* strlen of a C string, held as the sequence of its bytes before the NUL. *)
strlen(str) == Len(str)

(* Byte k (from 0) of a C string: its terminating NUL follows its bytes.   *)
CharAt(str, k) == IF k < Len(str) THEN str[k + 1] ELSE 0

(* strncmp(s1, s2, n) from position k on: 0 when equal, 1 otherwise.       *)
RECURSIVE StrncmpFrom(_, _, _, _)
StrncmpFrom(s1, s2, k, n) ==
    IF k >= n THEN 0
    ELSE IF CharAt(s1, k) # s2[k + 1] THEN 1
    ELSE IF CharAt(s1, k) = 0 THEN 0
    ELSE StrncmpFrom(s1, s2, k + 1, n)

strncmp(s1, s2, n) == StrncmpFrom(s1, s2, 0, n)

(* EntryMatches as it would be if free entries were not skipped.           *)
EntryMatches_FreeToo(name, current_entry) ==
    strncmp(name, current_entry.d_name, D_NAME_LEN) = 0

(* EntryMatches as it would be if only strlen(name) bytes were compared.   *)
EntryMatches_Prefix(name, current_entry) ==
    /\ current_entry.d_inumber # 0
    /\ strncmp(name, current_entry.d_name, strlen(name)) = 0

(* NameTooLong as it would be with the preliminary check left out.         *)
NameTooLong_Unchecked(name) == FALSE

NameTooLong(name) == strlen(name) > D_NAME_LEN

(* Step c of the loop: the valid bytes of logical block blockNum.          *)
DirValidBytes(dir_size_bytes, blockNum) ==
    LET start_byte_of_this_block == blockNum * DISKIMG_SECTOR_SIZE
        remaining_bytes_in_dir == dir_size_bytes - start_byte_of_this_block
    IN  IF remaining_bytes_in_dir >= DISKIMG_SECTOR_SIZE
        THEN DISKIMG_SECTOR_SIZE
        ELSE remaining_bytes_in_dir

(* The test of the inner loop on one entry.                                *)
EntryMatches(name, current_entry) ==
    /\ current_entry.d_inumber # 0
    /\ strncmp(name, current_entry.d_name, D_NAME_LEN) = 0

(* The inner loop: the index of the entry it stops at, or -1.              *)
RECURSIVE ScanBlock(_, _, _, _)
ScanBlock(buf, name, i, num_entries_in_block) ==
    IF i >= num_entries_in_block THEN -1
    ELSE IF \E current_entry \in {DecodeDirent(buf, i * DIRENT_SIZE)} :
                EntryMatches(name, current_entry)
         THEN i
    ELSE ScanBlock(buf, name, i + 1, num_entries_in_block)

(* Steps c and d on the block just read by r: -2 stands for "no match in   *)
(* this block", any other value is the return of directory_findname.       *)
ScanRead(r, name, dirEnt, valid_bytes_in_block) ==
    IF ~r.ok THEN [ret |-> FAILURE, dirEnt |-> dirEnt, t |-> r.t]
    ELSE IF valid_bytes_in_block <= 0 THEN [ret |-> FAILURE, dirEnt |-> dirEnt, t |-> r.t]
    ELSE IF valid_bytes_in_block % DIRENT_SIZE # 0
         THEN [ret |-> FAILURE, dirEnt |-> dirEnt, t |-> r.t]
    ELSE Bind(ScanBlock(r.buf, name, 0, valid_bytes_in_block \div DIRENT_SIZE), LAMBDA hit :
             IF hit >= 0
             THEN [ret |-> 0, dirEnt |-> DecodeDirent(r.buf, hit * DIRENT_SIZE), t |-> r.t]
             ELSE [ret |-> -2, dirEnt |-> dirEnt, t |-> r.t])

(* Steps a to d on one logical block.                                      *)
ScanStep(t, dir_inode, dir_size_bytes, name, dirEnt, current_logical_block_num) ==
    Bind(inode_indexlookup(t, dir_inode, current_logical_block_num), LAMBDA l :
        IF l.ret < 0 \/ l.ret = 0 THEN [ret |-> FAILURE, dirEnt |-> dirEnt, t |-> l.t]
        ELSE Bind(diskimg_readsector(l.t, l.ret), LAMBDA r :
                 ScanRead(r, name, dirEnt,
                          DirValidBytes(dir_size_bytes, current_logical_block_num))))

(* The while loop over the logical blocks of the directory.                *)
RECURSIVE ScanLoop(_, _, _, _, _, _, _)
ScanLoop(t, dir_inode, dir_size_bytes, name, dirEnt, total_bytes_processed, current_logical_block_num) ==
    IF total_bytes_processed >= dir_size_bytes
    THEN [ret |-> FAILURE, dirEnt |-> dirEnt, t |-> t]
    ELSE Bind(ScanStep(t, dir_inode, dir_size_bytes, name, dirEnt,
                       current_logical_block_num), LAMBDA s :
             IF s.ret # -2 THEN s
             ELSE Bind(total_bytes_processed
                         + DirValidBytes(dir_size_bytes, current_logical_block_num),
                       LAMBDA total :
                         ScanLoop(s.t, dir_inode, dir_size_bytes, name, dirEnt, total,
                                  current_logical_block_num + 1)))

(* directory_findname from the size checks on.                             *)
FindnameSized(g, name, dirEnt, dir_size_bytes) ==
    IF dir_size_bytes = 0 THEN [ret |-> FAILURE, dirEnt |-> dirEnt, t |-> g.t]
    ELSE IF dir_size_bytes % DIRENT_SIZE # 0
         THEN [ret |-> FAILURE, dirEnt |-> dirEnt, t |-> g.t]
    ELSE ScanLoop(g.t, g.inp, dir_size_bytes, name, dirEnt, 0, 0)

(* directory_findname once inode_iget has returned g.                      *)
FindnameFetched(g, name, dirEnt) ==
    IF g.ret < 0 THEN [ret |-> FAILURE, dirEnt |-> dirEnt, t |-> g.t]
    ELSE IF BitAnd(g.inp.i_mode, IFMT) # IFDIR
         THEN [ret |-> FAILURE, dirEnt |-> dirEnt, t |-> g.t]
    ELSE Bind(inode_getsize(g.inp), LAMBDA dir_size_bytes :
             FindnameSized(g, name, dirEnt, dir_size_bytes))

directory_findname(t0, name, dirinumber, dirEnt) ==
    Bind(Append(t0, EvFindname(name)), LAMBDA t :
        IF NameTooLong(name) THEN [ret |-> FAILURE, dirEnt |-> dirEnt, t |-> t]
        ELSE Bind(inode_iget(t, dirinumber, ZeroInode), LAMBDA g :
                 FindnameFetched(g, name, dirEnt)))

----------------------------------------------------------------------------
(* pathname.c                                                              *)

NullPath == [null |-> TRUE, s |-> <<>>]
Path(str) == [null |-> FALSE, s |-> str]

(* strtok with delimiter "/": the first position from i on that holds no   *)
(* delimiter, and the first from i on that holds one (Len + 1 if none).    *)
SkipDelims(str, i) ==
    IF i > Len(str) THEN i
    ELSE CHOOSE j \in i..(Len(str) + 1) :
             /\ \A k \in i..(j - 1) : str[k] = SLASH
             /\ (j = Len(str) + 1 \/ str[j] # SLASH)

TokenEnd(str, i) ==
    IF i > Len(str) THEN i
    ELSE CHOOSE j \in i..(Len(str) + 1) :
             /\ \A k \in i..(j - 1) : str[k] # SLASH
             /\ (j = Len(str) + 1 \/ str[j] = SLASH)

(* The token that starts at start and ends before end.                     *)
Token(str, start, end) ==
    IF start > Len(str) THEN [null |-> TRUE, tok |-> <<>>, next |-> start]
    ELSE [null |-> FALSE, tok |-> SubSeq(str, start, end - 1),
          next |-> IF end > Len(str) THEN end ELSE end + 1]

(* One call of strtok, the scan resuming at position pos: the token, or    *)
(* null when only delimiters are left, and where the next call resumes.    *)
strtok(str, pos) ==
    Bind(SkipDelims(str, pos), LAMBDA start :
        Bind(TokenEnd(str, start), LAMBDA end : Token(str, start, end)))

(* IsDirectory as it would be with the type check left out.                *)
IsDirectory_Unchecked(inode) == TRUE

IsDirectory(inode) == BitAnd(inode.i_mode, IFMT) = IFDIR

(* The while loop over the components.                                     *)
RECURSIVE PathLoop(_, _, _, _)
PathLoop(t, str, component, current_dir_inumber) ==
    IF component.null THEN [ret |-> current_dir_inumber, t |-> t]
    ELSE Bind(inode_iget(t, current_dir_inumber, ZeroInode), LAMBDA g :
             IF g.ret < 0 THEN [ret |-> FAILURE, t |-> g.t]
             ELSE IF ~IsDirectory(g.inp) THEN [ret |-> FAILURE, t |-> g.t]
             ELSE Bind(directory_findname(g.t, component.tok, current_dir_inumber,
                                          ZeroDirent), LAMBDA f :
                      IF f.ret < 0 THEN [ret |-> FAILURE, t |-> f.t]
                      ELSE Bind(strtok(str, component.next), LAMBDA next_component :
                               PathLoop(f.t, str, next_component, f.dirEnt.d_inumber))))

pathname_lookup(t, pathname) ==
    IF pathname.null \/ Len(pathname.s) = 0 THEN [ret |-> FAILURE, t |-> t]
    ELSE IF pathname.s[1] # SLASH THEN [ret |-> FAILURE, t |-> t]
    ELSE IF strlen(pathname.s) + 1 > MAX_PATHNAME_LEN THEN [ret |-> FAILURE, t |-> t]
    ELSE IF pathname.s = <<SLASH>> THEN [ret |-> ROOT_INUMBER, t |-> t]
    ELSE Bind(strtok(pathname.s, 1), LAMBDA component :
             PathLoop(t, pathname.s, component, ROOT_INUMBER))

----------------------------------------------------------------------------
(* The inputs of the calls.                                                *)

MaxInumber == S_ISIZE * INODES_PER_BLOCK
Inumbers == (0 - 1)..(MaxInumber + 2)

BlockNums ==
    ((0 - 1)..MaxBlk)
    \cup {7, 8, 9, ADDRESSES_PER_BLOCK - 1, ADDRESSES_PER_BLOCK,
          SingleCoverage - 1, SingleCoverage, SingleCoverage + 1,
          SingleCoverage + ADDRESSES_PER_BLOCK, SingleCoverage + ADDRESSES_PER_BLOCK + 1,
          32767}

InputSizes ==
    {k * DISKIMG_SECTOR_SIZE + r : k \in 0..MaxBlk, r \in {0, 1}}
    \cup {8 * DISKIMG_SECTOR_SIZE, 9 * DISKIMG_SECTOR_SIZE,
          SingleCoverage * DISKIMG_SECTOR_SIZE, SingleCoverage * DISKIMG_SECTOR_SIZE + 1,
          (SingleCoverage + ADDRESSES_PER_BLOCK + 2) * DISKIMG_SECTOR_SIZE}

InputAddrs == {DenseAddr, DirectAddr, <<9>>, NoAddr, <<20, 0, 22>>,
               <<9, 0, 15, OutOfImage>>, <<0, 0, 0, 0, 0, 0, 11, 12>>}

InodeInputs ==
    {Ino(m, sz, a) : m \in {MODE_REG, MODE_LARGE}, sz \in InputSizes, a \in InputAddrs}

SearchNames ==
    {<<>>, N_dot, N_lib, N_li, N_libs, N_bin, N_file, N_14, N_13, N_15, N_ta,
     N_tail, N_gone, N_nope, N_x, N_y, N_z}

PathNames == {N_lib, N_bin, N_file, N_x, N_14, N_15}

RECURSIVE Join(_, _)
Join(comps, sep) ==
    IF comps = <<>> THEN <<>> ELSE sep \o Head(comps) \o Join(Tail(comps), sep)

CompSeqs == UNION {[1..k -> PathNames] : k \in 1..MaxComps}

Slashes(n) == [i \in 1..n |-> SLASH]

Pathnames ==
    {Path(Join(c, <<SLASH>>)) : c \in CompSeqs}
    \cup {Path(Join(c, <<SLASH, SLASH>>)) : c \in CompSeqs}
    \cup {Path(Join(c, <<SLASH>>) \o <<SLASH>>) : c \in CompSeqs}
    \cup {Path(Tail(Join(c, <<SLASH>>))) : c \in CompSeqs}
    \cup {NullPath, Path(<<>>), Path(Slashes(1)), Path(Slashes(2)),
          Path(Slashes(MAX_PATHNAME_LEN - 6) \o N_lib \o <<SLASH>> \o N_x),
          Path(Slashes(MAX_PATHNAME_LEN - 5) \o N_lib \o <<SLASH>> \o N_x)}

(* What the caller's output records hold before a call.                    *)
OldInode == Ino(MODE_REG, 7, <<1, 2, 3>>)
OldDirent == [d_inumber |-> 99, d_name |-> [k \in 1..D_NAME_LEN |-> 63]]

NoArg == [inumber |-> 0, blockNum |-> 0, inp |-> ZeroInode, name |-> <<>>,
          pathname |-> NullPath]
NoOut == [inp |-> OldInode, dirEnt |-> OldDirent]

----------------------------------------------------------------------------
(* The state machine: one call at a time on the image, under a fault plan  *)
(* that names the read (counted within the call) that fails, 0 for none.   *)

Init ==
    /\ failAt \in 0..MaxFail
    /\ pc = "idle"
    /\ op = "none"
    /\ arg = NoArg
    /\ ret = 0
    /\ trace = <<>>
    /\ out = NoOut

(* The call o on arguments a has returned r: the caller's view of it.      *)
Finish(o, a, r, o_inp, o_dirEnt) ==
    /\ pc' = "done"
    /\ op' = o
    /\ arg' = a
    /\ ret' = r.ret
    /\ trace' = r.t
    /\ out' = [inp |-> o_inp, dirEnt |-> o_dirEnt]
    /\ UNCHANGED failAt

FinishIget(a, r) == Finish("inode_iget", a, r, r.inp, OldDirent)
FinishFindname(a, r) == Finish("directory_findname", a, r, OldInode, r.dirEnt)

Call_inode_iget ==
    /\ pc = "idle"
    /\ \E n \in Inumbers :
         \E r \in {inode_iget(<<>>, n, OldInode)} :
            FinishIget([NoArg EXCEPT !.inumber = n], r)

Call_inode_indexlookup ==
    /\ pc = "idle"
    /\ \E inp \in InodeInputs, b \in BlockNums :
         \E r \in {inode_indexlookup(<<>>, inp, b)} :
            Finish("inode_indexlookup", [NoArg EXCEPT !.inp = inp, !.blockNum = b],
                   r, OldInode, OldDirent)

Call_file_getblock ==
    /\ pc = "idle"
    /\ \E n \in Inumbers, b \in BlockNums :
         \E r \in {file_getblock(<<>>, n, b)} :
            Finish("file_getblock", [NoArg EXCEPT !.inumber = n, !.blockNum = b],
                   r, OldInode, OldDirent)

Call_directory_findname ==
    /\ pc = "idle"
    /\ \E name \in SearchNames, n \in Inumbers :
         \E r \in {directory_findname(<<>>, name, n, OldDirent)} :
            FinishFindname([NoArg EXCEPT !.name = name, !.inumber = n], r)

Call_pathname_lookup ==
    /\ pc = "idle"
    /\ \E p \in Pathnames :
         \E r \in {pathname_lookup(<<>>, p)} :
            Finish("pathname_lookup", [NoArg EXCEPT !.pathname = p],
                   r, OldInode, OldDirent)

(* The call has returned; the caller is free to make the next one.         *)
Return ==
    /\ pc = "done"
    /\ pc' = "idle"
    /\ op' = "none"
    /\ arg' = NoArg
    /\ ret' = 0
    /\ trace' = <<>>
    /\ out' = NoOut
    /\ UNCHANGED failAt

Next ==
    \/ Call_inode_iget
    \/ Call_inode_indexlookup
    \/ Call_file_getblock
    \/ Call_directory_findname
    \/ Call_pathname_lookup
    \/ Return

Spec == Init /\ [][Next]_vars

----------------------------------------------------------------------------
(* Vocabulary of the properties.                                           *)

Done(o) == pc = "done" /\ op = o

(* No read is made to fail by the fault plan.                              *)
NoFault == failAt = 0

(* The sector holding inode n of the i-list.                               *)
InodeSectorOf(n) == INODE_START_SECTOR + ((n - 1) \div INODES_PER_BLOCK)

(* Inode n of the image is allocated.                                      *)
Allocated(n) == n \in 1..MaxInumber /\ InodeTable[n].i_mode >= IALLOC

SizeOf(inode) == inode.i_size0 * 65536 + inode.i_size1

NumBlocks(size) ==
    (size \div DISKIMG_SECTOR_SIZE) + (IF size % DISKIMG_SECTOR_SIZE = 0 THEN 0 ELSE 1)

(* Entry k of the address table held by sector s.                          *)
AddrEntry(s, k) == U16(SectorContent(s), ADDR_SIZE * k)

(* Logical block b of inode translates to a sector of the image.           *)
Resolves(inode, b) ==
    LET l == inode_indexlookup(<<>>, inode, b)
    IN  l.ret > 0 /\ l.ret < NSectors

(* The sum of the returns of file_getblock(n, lo), ..., file_getblock(n, hi). *)
RECURSIVE SumGetblock(_, _, _)
SumGetblock(n, lo, hi) ==
    IF lo > hi THEN 0
    ELSE IF lo = hi THEN file_getblock(<<>>, n, lo).ret
    ELSE LET mid == (lo + hi) \div 2
         IN  SumGetblock(n, lo, mid) + SumGetblock(n, mid + 1, hi)

----------------------------------------------------------------------------
(* C1: round trip of file_getblock.  For an allocated inode of size > 0,   *)
(* with no read failing: a call on a block that resolves returns 512       *)
(* unless the block is the last one, the last one returns fewer than 512   *)
(* exactly when the size is no multiple of 512, and when all the blocks    *)
(* resolve the returns over blocks 0..ceil(size/512)-1 add up to the size. *)
C1_RoundTrip ==
    (Done("file_getblock") /\ NoFault /\ Allocated(arg.inumber)) =>
      LET inode == InodeTable[arg.inumber]
          size == SizeOf(inode)
          last == NumBlocks(size) - 1
          b == arg.blockNum
      IN  (size > 0 /\ b \in 0..last /\ Resolves(inode, b)) =>
            /\ b < last => ret = DISKIMG_SECTOR_SIZE
            /\ b = last =>
                 /\ ret > 0 /\ ret <= DISKIMG_SECTOR_SIZE
                 /\ (ret < DISKIMG_SECTOR_SIZE) <=> (size % DISKIMG_SECTOR_SIZE # 0)
                 /\ (\A k \in 0..last : Resolves(inode, k)) =>
                        SumGetblock(arg.inumber, 0, last) = size

(* The last block of a file of 7*256 blocks and one byte, read through the *)
(* double-indirect pointer, holds one valid byte.                          *)
C1_Witness ==
    /\ Done("file_getblock") /\ NoFault
    /\ arg.inumber = 27
    /\ arg.blockNum = SingleCoverage
    /\ \A k \in 0..SingleCoverage : Resolves(InodeTable[27], k)
    /\ ret = 1

(* C2 (as claimed): inode_indexlookup on an inode of size zero fails for   *)
(* every block index >= 0.                                                 *)
C2_ZeroSizeAlwaysFails ==
    (Done("inode_indexlookup") /\ SizeOf(arg.inp) = 0 /\ arg.blockNum >= 0) =>
        ret = FAILURE

----------------------------------------------------------------------------
(* The components of a pathname, and the directories of the image.         *)

(* Some component of str is longer than the name field of an entry.        *)
HasLongComponent(str) ==
    \E i \in 1..(Len(str) - D_NAME_LEN) :
        \A k \in i..(i + D_NAME_LEN) : str[k] # SLASH

(* The positions where a component of str starts, and where the component *)
(* that starts at i ends.                                                  *)
CompStarts(str) ==
    {i \in 1..Len(str) : str[i] # SLASH /\ (i = 1 \/ str[i - 1] = SLASH)}

CompEnd(str, i) ==
    CHOOSE j \in i..Len(str) :
        /\ \A k \in i..j : str[k] # SLASH
        /\ (j = Len(str) \/ str[j + 1] = SLASH)

(* The non-empty components of str, in order.                              *)
RECURSIVE SplitFrom(_, _)
SplitFrom(str, starts) ==
    IF starts = {} THEN <<>>
    ELSE LET i == CHOOSE x \in starts : \A y \in starts : x <= y
         IN  <<SubSeq(str, i, CompEnd(str, i))>> \o SplitFrom(str, starts \ {i})

Components(str) == SplitFrom(str, CompStarts(str))

(* The path of the first k components.                                     *)
PrefixPath(comps, k) == Path(Join(SubSeq(comps, 1, k), <<SLASH>>))

IsFindname(e) == e[1] = "findname"
IsIndexlookup(e) == e[1] = "indexlookup"
Findnames(t) == SelectSeq(t, IsFindname)
Indexlookups(t) == SelectSeq(t, IsIndexlookup)

(* The sectors read, in order.                                             *)
ReadSectors(t) == [i \in 1..Len(Reads(t)) |-> Reads(t)[i][2]]

(* The well-formed directories of the image: their entries in logical      *)
(* order and, for each of their logical blocks, the sectors that reading   *)
(* it takes (directory 14 is large: sector 16 is its indirect block).      *)
GoodDirs == {1, 2, 5, 14}

DirContent(n) ==
    CASE n = 1 -> RootEntries
      [] n = 2 -> LibBlock0 \o LibBlock1
      [] n = 5 -> BinEntries
      [] n = 14 -> BinEntries

DirBlocks(n) ==
    CASE n = 1 -> << <<4>> >>
      [] n = 2 -> << <<5>>, <<6>> >>
      [] n = 5 -> << <<7>> >>
      [] n = 14 -> << <<16, 7>> >>

RECURSIVE Flatten(_)
Flatten(ss) == IF ss = <<>> THEN <<>> ELSE Head(ss) \o Flatten(Tail(ss))

ENTRIES_PER_BLOCK == DISKIMG_SECTOR_SIZE \div DIRENT_SIZE

(* The name a 14-byte field holds: its bytes before the first NUL.         *)
RECURSIVE FieldName(_)
FieldName(field) ==
    IF field = <<>> \/ Head(field) = 0 THEN <<>>
    ELSE <<Head(field)>> \o FieldName(Tail(field))

(* The entry as it lies on disk.                                           *)
OnDisk(ent) ==
    [d_inumber |-> ent[1],
     d_name |-> SubSeq(ent[2] \o [k \in 1..D_NAME_LEN |-> 0], 1, D_NAME_LEN)]

(* The positions of the non-free entries of directory n that hold name.    *)
Hits(n, name) ==
    {i \in 1..Len(DirContent(n)) :
        DirContent(n)[i][1] # 0 /\ FieldName(DirContent(n)[i][2]) = name}

Min(S) == CHOOSE x \in S : \A y \in S : x <= y

----------------------------------------------------------------------------
(* C3 (as claimed): a pathname with a component of more than 14 bytes is   *)
(* rejected by pathname_lookup before any sector is read.                  *)
C3_LongComponentNoRead ==
    (Done("pathname_lookup") /\ ~arg.pathname.null /\ HasLongComponent(arg.pathname.s)) =>
        (ret = FAILURE /\ Reads(trace) = <<>>)

(* C3 (amended): pathname_lookup fails on such a pathname, and the         *)
(* directory_findname call that is handed the over-long component reads no *)
(* sector: it is the last event of the call.  The sectors read before it   *)
(* are those that resolve the preceding components.                        *)
C3_LongComponentRejected ==
    (Done("pathname_lookup") /\ ~arg.pathname.null /\ HasLongComponent(arg.pathname.s)) =>
        /\ ret = FAILURE
        /\ \A i \in 1..Len(trace) :
             (IsFindname(trace[i]) /\ Len(trace[i][2]) > D_NAME_LEN) => i = Len(trace)

(* "/lib/abcdefghijklmno": the root and lib are searched, sectors are      *)
(* read, and the call ends in the rejected directory_findname call.        *)
C3_Witness ==
    /\ Done("pathname_lookup") /\ NoFault
    /\ arg.pathname = Path(<<SLASH>> \o N_lib \o <<SLASH>> \o N_15)
    /\ ret = FAILURE
    /\ Len(Reads(trace)) > 0
    /\ IsFindname(trace[Len(trace)])
    /\ trace[Len(trace)][2] = N_15

(* C4: when the first k components of the path (k less than their number) *)
(* resolve to an inode that is no directory, pathname_lookup fails, and    *)
(* all it does after resolving them is fetch that inode: no                *)
(* directory_findname call for component k+1, no read of a data block.     *)
C4_NonDirectoryStops ==
    Done("pathname_lookup") /\ ~arg.pathname.null =>
      LET comps == Components(arg.pathname.s)
      IN  \A k \in 1..(Len(comps) - 1) :
            LET pre == pathname_lookup(<<>>, PrefixPath(comps, k))
            IN  (/\ arg.pathname.s[1] = SLASH
                 /\ strlen(arg.pathname.s) + 1 <= MAX_PATHNAME_LEN
                 /\ pre.ret \in 1..MaxInumber
                 /\ ~(BitAnd(InodeTable[pre.ret].i_mode, IFMT) = IFDIR)) =>
                  /\ ret = FAILURE
                  /\ Len(Findnames(trace)) = k
                  /\ Len(trace) = Len(pre.t) + 1
                  /\ IsRead(trace[Len(trace)])
                  /\ trace[Len(trace)][2] = InodeSectorOf(pre.ret)

(* "/file/x": file is a regular file; after its entry is found in the root *)
(* only its inode is fetched.                                              *)
C4_Witness ==
    /\ Done("pathname_lookup") /\ NoFault
    /\ arg.pathname = Path(<<SLASH>> \o N_file \o <<SLASH>> \o N_x)
    /\ ret = FAILURE
    /\ Len(Findnames(trace)) = 1
    /\ ReadSectors(trace) = <<2, 2, 4, 2>>

(* C5: on a well-formed directory, with no read failing,                   *)
(* directory_findname returns the first non-free entry, in the order of    *)
(* the logical blocks 0, 1, 2, ..., whose name is the search name, as it   *)
(* lies on disk, and reads no block beyond that entry's; when no non-free  *)
(* entry holds the name it fails after looking up and reading every block  *)
(* (a name of more than 14 bytes is in no entry, and fails unread).        *)
C5_FirstMatchWins ==
    (Done("directory_findname") /\ NoFault /\ arg.inumber \in GoodDirs) =>
      LET n == arg.inumber
          hits == Hits(n, arg.name)
      IN  IF hits = {}
          THEN /\ ret = FAILURE
               /\ out.dirEnt = OldDirent
               /\ ReadSectors(trace) =
                     (IF Len(arg.name) > D_NAME_LEN THEN <<>>
                      ELSE <<InodeSectorOf(n)>> \o Flatten(DirBlocks(n)))
          ELSE /\ ret = 0
               /\ out.dirEnt = OnDisk(DirContent(n)[Min(hits)])
               /\ LET blk == (Min(hits) - 1) \div ENTRIES_PER_BLOCK
                  IN  /\ ReadSectors(trace) = <<InodeSectorOf(n)>> \o
                             Flatten(SubSeq(DirBlocks(n), 1, blk + 1))
                      /\ Len(Indexlookups(trace)) = blk + 1
                      /\ \A i \in 1..(blk + 1) : Indexlookups(trace)[i][2] = i - 1

(* The directory {(2,"lib"), (0,""), (5,"bin")} searched for "bin".        *)
C5_Witness ==
    /\ Done("directory_findname") /\ NoFault
    /\ arg.inumber = 5
    /\ arg.name = N_bin
    /\ ret = 0
    /\ out.dirEnt.d_inumber = 5
    /\ Min(Hits(5, N_bin)) = 3

(* C6: on a well-formed directory, with no read failing, the entry that    *)
(* directory_findname returns holds the search name in its name field      *)
(* truncated at the first NUL (the whole field when it has none), and      *)
(* directory_findname fails only when no non-free entry does.              *)
C6_NameMatching ==
    (Done("directory_findname") /\ NoFault /\ arg.inumber \in GoodDirs) =>
      /\ ret = 0 =>
           /\ out.dirEnt.d_inumber # 0
           /\ FieldName(out.dirEnt.d_name) = arg.name
      /\ ret # 0 =>
           \A i \in 1..Len(DirContent(arg.inumber)) :
               LET ent == DirContent(arg.inumber)[i]
               IN  ent[1] = 0 \/ FieldName(ent[2]) # arg.name

(* A search name of 14 characters finds the entry whose field is full.     *)
C6_Witness ==
    /\ Done("directory_findname") /\ NoFault
    /\ arg.inumber = 1
    /\ arg.name = N_14
    /\ ret = 0
    /\ out.dirEnt.d_name = N_14
    /\ out.dirEnt.d_inumber = 8

----------------------------------------------------------------------------
(* The reference two-level map of a large file.                            *)

IsLarge(inode) == (inode.i_mode \div ILARG) % 2 = 1

(* Entry k of the table in sector s: -1 when there is no such sector (s is *)
(* zero, not a sector of the image, or itself a failure) or the entry is 0. *)
Via(s, k) ==
    IF s <= 0 \/ s >= NSectors THEN FAILURE
    ELSE IF AddrEntry(s, k) = 0 THEN FAILURE
    ELSE AddrEntry(s, k)

RefLarge(inode, b) ==
    IF b < 7 * ADDRESSES_PER_BLOCK
    THEN Via(inode.i_addr[(b \div ADDRESSES_PER_BLOCK) + 1], b % ADDRESSES_PER_BLOCK)
    ELSE LET j == b - 7 * ADDRESSES_PER_BLOCK
         IN  Via(Via(inode.i_addr[8], j \div ADDRESSES_PER_BLOCK), j % ADDRESSES_PER_BLOCK)

(* The sectors the reference map goes through.                             *)
RefLargeReads(inode, b) ==
    IF b < 7 * ADDRESSES_PER_BLOCK
    THEN LET p == inode.i_addr[(b \div ADDRESSES_PER_BLOCK) + 1]
         IN  IF p = 0 THEN <<>> ELSE <<p>>
    ELSE LET j == b - 7 * ADDRESSES_PER_BLOCK
             p == inode.i_addr[8]
             q == Via(p, j \div ADDRESSES_PER_BLOCK)
         IN  IF p = 0 THEN <<>> ELSE IF q = FAILURE THEN <<p>> ELSE <<p, q>>

(* C7: for a large file and an index below ceil(size/512), with no read    *)
(* failing, inode_indexlookup returns what the reference map gives (a      *)
(* failure where the map meets a zero or a missing sector), and reads the  *)
(* sectors the map goes through: i_addr[index div 256] below 7*256,        *)
(* i_addr[7] and then its entry (index - 7*256) div 256 from 7*256 on.     *)
C7_LargeFileMap ==
    (/\ Done("inode_indexlookup") /\ NoFault
     /\ IsLarge(arg.inp)
     /\ arg.blockNum >= 0
     /\ arg.blockNum < NumBlocks(SizeOf(arg.inp))) =>
        /\ ret = RefLarge(arg.inp, arg.blockNum)
        /\ ReadSectors(trace) = RefLargeReads(arg.inp, arg.blockNum)

(* Index 7*256 goes through i_addr[7] = 12, its entry 0 = 13, and entry 0  *)
(* of that, 34.                                                            *)
C7_Witness ==
    /\ Done("inode_indexlookup") /\ NoFault
    /\ arg.inp.i_addr = DenseAddr /\ IsLarge(arg.inp)
    /\ arg.blockNum = 7 * ADDRESSES_PER_BLOCK
    /\ arg.blockNum < NumBlocks(SizeOf(arg.inp))
    /\ ret = AddrEntry(AddrEntry(12, 0), 0)
    /\ ReadSectors(trace) = <<12, 13>>

(* The large encodings of a small inode: same size, i_addr[0] pointing to  *)
(* a sector of the image whose entries 0..7 are the eight direct slots.    *)
LargeTwins(inode) ==
    {[inode EXCEPT !.i_mode = inode.i_mode + ILARG,
                   !.i_addr = <<s, 0, 0, 0, 0, 0, 0, 0>>] :
        s \in {x \in 1..(NSectors - 1) :
                  \A k \in 0..(N_ADDR - 1) : AddrEntry(x, k) = inode.i_addr[k + 1]}}

(* C8: with no read failing, inode_indexlookup on a small inode returns,   *)
(* for every index 0..7, what it returns on each large encoding of the     *)
(* same content; at index 8 it fails on the small inode.                   *)
C8_ModeAgreement ==
    (Done("inode_indexlookup") /\ NoFault /\ ~IsLarge(arg.inp)) =>
        /\ arg.blockNum \in 0..7 =>
             \A twin \in LargeTwins(arg.inp) :
                 inode_indexlookup(<<>>, twin, arg.blockNum).ret = ret
        /\ arg.blockNum = 8 => ret = FAILURE

(* Index 7 of a file of eight blocks: slot 7 holds 27, and so does entry 7 *)
(* of sector 9.                                                            *)
C8_Witness ==
    /\ Done("inode_indexlookup") /\ NoFault /\ ~IsLarge(arg.inp)
    /\ arg.inp.i_addr = DirectAddr
    /\ SizeOf(arg.inp) = 8 * DISKIMG_SECTOR_SIZE
    /\ arg.blockNum = 7
    /\ LargeTwins(arg.inp) # {}
    /\ ret = 27

(* C9: file_getblock on an allocated inode of size zero whose fetch        *)
(* succeeds returns 0 for every block index; all it does is read the       *)
(* sector of the inode: no block is translated, no data sector read.       *)
C9_EmptyFileReadsNothing ==
    (/\ Done("file_getblock")
     /\ Allocated(arg.inumber)
     /\ SizeOf(InodeTable[arg.inumber]) = 0
     /\ failAt # 1) =>
        /\ ret = 0
        /\ Len(trace) = 1
        /\ IsRead(trace[1])
        /\ trace[1][2] = InodeSectorOf(arg.inumber)

(* Inode 10 has size 0 and eight non-zero address slots.                   *)
C9_Witness ==
    /\ Done("file_getblock")
    /\ arg.inumber = 10
    /\ arg.blockNum = 0
    /\ InodeTable[10].i_addr[1] # 0
    /\ ret = 0
    /\ ReadSectors(trace) = <<2>>

(* C10: in every call, a diskimg_readsector call that fails is the last    *)
(* one made, and the call returns failure.                                 *)
C10_FailedReadIsTerminal ==
    pc = "done" =>
      \A i \in 1..Len(trace) :
        (IsRead(trace[i]) /\ ~trace[i][3]) =>
           /\ ret = FAILURE
           /\ \A j \in (i + 1)..Len(trace) : ~IsRead(trace[j])

(* The fourth read of a pathname_lookup fails, after three that succeeded. *)
C10_Witness ==
    /\ Done("pathname_lookup")
    /\ failAt = 4
    /\ Len(Reads(trace)) = 4
    /\ ~Reads(trace)[4][3]
    /\ Reads(trace)[3][3]
    /\ ret = FAILURE

(* C11: a call of inode_iget that fails leaves the caller's inode record   *)
(* holding what it held before the call, and a call of directory_findname  *)
(* that fails leaves the caller's directory entry unchanged.               *)
C11_NoPartialResult ==
    /\ (Done("inode_iget") /\ ret < 0) => out.inp = OldInode
    /\ (Done("directory_findname") /\ ret < 0) => out.dirEnt = OldDirent

(* The canonical spelling of the components of str: one separator before   *)
(* each component, "/" when there is none.                                 *)
Canonical(str) ==
    IF Components(str) = <<>> THEN <<SLASH>> ELSE Join(Components(str), <<SLASH>>)

(* C12: pathname_lookup fails on a null, empty or non-'/'-initial          *)
(* pathname, returns the root inumber for an absolute path without         *)
(* components, and otherwise returns what it returns for the canonical     *)
(* spelling of the same components: repeated and trailing separators do    *)
(* not change the result.                                                  *)
C12_ComponentsDetermineResult ==
    Done("pathname_lookup") =>
        IF arg.pathname.null \/ arg.pathname.s = <<>> THEN ret = FAILURE
        ELSE IF arg.pathname.s[1] # SLASH THEN ret = FAILURE
        ELSE IF Components(arg.pathname.s) = <<>> THEN ret = ROOT_INUMBER
        ELSE ret = pathname_lookup(<<>>, Path(Canonical(arg.pathname.s))).ret

====
